---------------------------- MODULE Spec2Model ----------------------------
(***************************************************************************)
(* A model of NooDS' software 3D renderer (src/src/gpu_3d_renderer.cpp):   *)
(* the register interface, the texture unit, the polygon setup, the        *)
(* scanline rasterizer and the four-thread tile scheduler.                 *)
(*                                                                         *)
(* The screen is scaled down: a tile has TileLines scanlines (48 in the    *)
(* source) and a scanline has Width columns (256 in the source).  All the  *)
(* arithmetic of the source that mentions 48 or 256 is kept, with the      *)
(* scaled value in its place.                                              *)
(***************************************************************************)
EXTENDS Integers, Sequences, FiniteSets, TLC

\* ------------------------------------------------------------------ bounds
\* Scanlines per tile (the source's 48).
TileLines == 2
\* Columns per scanline (the source's 256).
Width == 3

\* Rows of the grid the vertices of the polygon setup specification lie on,
\* less one.
GridY == 2

\* --------------------------------------------------------- program constants
\* The most vertices a polygon has (Vertex *vertices[8]).
MaxVertices == 8
\* The number of tiles and of worker threads.
NumTiles == 4
\* The margin of the "equal" depth test.
DepthMargin == 512
\* The size of a texture slot and of a palette slot, in bytes.
TexSlotSize == 131072
PalSlotSize == 16384
\* The bits of DISP3DCNT a write may change.
Disp3DCntMask == 20479
\* The bits of a TOON_TABLE entry a write may change.
ToonMask == 32767

\* An absent slot, and the null pointer
NoSlot == << >>
NullPtr == [ok |-> FALSE, mem |-> << >>, off |-> 0]

\* ------------------------------------------------------------ bit arithmetic
Pow2(n) == 2 ^ n
BIT(n) == Pow2(n)

\* a >> n and the low n bits of a, for a >= 0
Shr(a, n) == a \div Pow2(n)
Low(a, n) == a % Pow2(n)

\* bit n of a
BitOf(a, n) == Shr(a, n) % 2

RECURSIVE AndN(_, _, _)
AndN(a, b, n) ==
    IF n = 0 \/ a = 0 \/ b = 0 THEN 0
    ELSE (a % 2) * (b % 2) + 2 * AndN(a \div 2, b \div 2, n - 1)

\* a & b on non-negative values below 2^31
And(a, b) == AndN(a, b, 31)
\* a | b
Or(a, b) == a + b - And(a, b)
\* a & ~b
AndNot(a, b) == a - And(a, b)

\* C's integer division, which truncates toward zero
TruncDiv(a, b) ==
    IF (a >= 0 /\ b > 0) \/ (a <= 0 /\ b < 0) THEN (IF a >= 0 THEN a ELSE -a) \div (IF b >= 0 THEN b ELSE -b)
    ELSE -((IF a >= 0 THEN a ELSE -a) \div (IF b >= 0 THEN b ELSE -b))

\* a / b as the source computes it: a division by zero is undefined behaviour,
\* which the callers below never reach on the inputs of this model
Div(a, b) == TruncDiv(a, b)

Max(a, b) == IF a > b THEN a ELSE b

\* ------------------------------------------------------------------- colours
\* One 5-bit channel to 6 bits
Expand5(c) == c * 2 + (c + 31) \div 32

rgba5ToRgba6(color) ==
    LET r == Expand5(Low(Shr(color, 0), 5))
        g == Expand5(Low(Shr(color, 5), 5))
        b == Expand5(Low(Shr(color, 10), 5))
        a == Expand5(Low(Shr(color, 15), 5))
    IN  a * Pow2(18) + b * Pow2(12) + g * Pow2(6) + r

\* The channels of an RGBA6 word (bits above 23 are ignored, as "& 0x3F" does)
ChanR(c) == Low(Shr(c, 0), 6)
ChanG(c) == Low(Shr(c, 6), 6)
ChanB(c) == Low(Shr(c, 12), 6)
ChanA(c) == Low(Shr(c, 18), 6)
\* color >> 18 of a vertex colour
ChanAFull(c) == Shr(c, 18)
Pack6(r, g, b, a) == a * Pow2(18) + b * Pow2(12) + g * Pow2(6) + r

\* ------------------------------------------------------------- interpolation
interpolate(v1, v2, x1, x, x2) ==
    Div(v1 * (x2 - x) + v2 * (x - x1), x2 - x1)

interpolateW(w1, w2, x1, x, x2) ==
    Div(w2 * w1 * (x2 - x1), w2 * (x2 - x) + w1 * (x - x1))

interpolateP(v1, v2, x1, x, x2, w1, w2) ==
    Div(v1 * w2 * (x2 - x) + v2 * w1 * (x - x1), w2 * (x2 - x) + w1 * (x - x1))

interpolateColor(c1, c2, x1, x, x2) ==
    LET r == interpolate(ChanR(c1), ChanR(c2), x1, x, x2)
        g == interpolate(ChanG(c1), ChanG(c2), x1, x, x2)
        b == interpolate(ChanB(c1), ChanB(c2), x1, x, x2)
        a == Max(ChanA(c1), ChanA(c2))
    IN  Pack6(r, g, b, a)

interpolateColorP(c1, c2, x1, x, x2, w1, w2) ==
    LET r == interpolateP(ChanR(c1), ChanR(c2), x1, x, x2, w1, w2)
        g == interpolateP(ChanG(c1), ChanG(c2), x1, x, x2, w1, w2)
        b == interpolateP(ChanB(c1), ChanB(c2), x1, x, x2, w1, w2)
        a == Max(ChanA(c1), ChanA(c2))
    IN  Pack6(r, g, b, a)

\* --------------------------------------------------------------------- state
VARIABLES
    disp3DCnt,      \* the DISP3DCNT register (16 bits)
    clearColor,     \* the clear colour, RGBA6
    clearDepth,     \* the clear depth
    toonTable,      \* 32 RGBA6 colours
    lastWrite,      \* the register write that ran last, with the value it found
    textures,       \* the texture slots: NoSlot (absent) or the slot's bytes
    palettes,       \* the palette slots: NoSlot (absent) or the slot's bytes
    texRead,        \* the readTexture call that ran last, with its outcome
    polygons,       \* the polygon list of the frame, in submission order
    framebuffer,    \* 192 rows of 256 pixel words, row after row
    depthBuffer,    \* per tile, the depth of each column
    attribBuffer,   \* per tile, the polygon id of each column
    stencilBuffer,  \* per tile, the stencil bit of each column
    rs,             \* where the stepwise drawScanline1 stands
    lastPixel,      \* the last iteration of rasterize's loop, with the buffers it found
    drawLog,        \* the drawPolygon calls of the scanline so far, in order
    prevEnd,        \* the tile's buffers as the previous scanline left them
    setup,          \* the drawPolygon call that ran last, with the edges it chose
    threaded,       \* Settings::getThreaded3D()
    threads,        \* threads[i]: 0 (nullptr) or the thread it points to, a place in live[i]
    live,           \* per slot i, the threads created for it and not yet deleted
    host,           \* where the host stands in drawScanline
    finished        \* per slot, the thread joined last: where it stood and what it had drawn

regs == <<disp3DCnt, clearColor, clearDepth, toonTable>>
mem == <<textures, palettes>>
regVars == <<disp3DCnt, clearColor, clearDepth, toonTable, lastWrite>>
texVars == <<textures, palettes, texRead>>
bufVars == <<framebuffer, depthBuffer, attribBuffer, stencilBuffer>>
rasterVars == <<rs, lastPixel, drawLog, prevEnd, setup>>
schedVars == <<threaded, threads, live, host, finished>>
vars == <<regVars, texVars, polygons, bufVars, rasterVars, schedVars>>

\* The slots of the texture and of the palette address space
TexSlots == 0 .. 3
PalSlots == 0 .. 7

\* The scanlines of the screen (the source's 192)
NumLines == NumTiles * TileLines

NoPixel == [fresh |-> FALSE]
NoPrev == [valid |-> FALSE]
NoRead ==
    [called |-> TRUE, polygon |-> [textureFmt |-> 0], s |-> 0, t |-> 0,
     fault |-> FALSE, trapped |-> FALSE, texel |-> 0]
NoSetup == [called |-> TRUE, line |-> 0, polygon |-> [size |-> 0], culled |-> TRUE]
NoThread == [pc |-> "none", log |-> << >>]
NoWrite == [reg |-> "none", mask |-> 0, value |-> 0, old |-> 0]

\* ------------------------------------------------------ register interface
\* writeDisp3DCnt without the error bits taken out of the mask (mask &= 0x7FFF)
Disp3DCntAfterWideMask(old, mask, value) ==
    LET ack12 == IF BitOf(value, 12) = 1 THEN AndNot(old, BIT(12)) ELSE old
        ack13 == IF BitOf(value, 13) = 1 THEN AndNot(ack12, BIT(13)) ELSE ack12
        m     == And(mask, 32767)
    IN  Or(AndNot(ack13, m), And(value, m))

\* The value writeDisp3DCnt leaves in the register
Disp3DCntAfter(old, mask, value) ==
    LET ack12 == IF BitOf(value, 12) = 1 THEN AndNot(old, BIT(12)) ELSE old
        ack13 == IF BitOf(value, 13) = 1 THEN AndNot(ack12, BIT(13)) ELSE ack12
        m     == And(mask, Disp3DCntMask)
    IN  Or(AndNot(ack13, m), And(value, m))

writeDisp3DCnt(mask, value) ==
    /\ disp3DCnt' = Disp3DCntAfter(disp3DCnt, mask, value)
    /\ lastWrite' = [reg |-> "disp3DCnt", mask |-> mask, value |-> value, old |-> disp3DCnt]
    /\ UNCHANGED <<clearColor, clearDepth, toonTable, mem, texRead, polygons, bufVars, rasterVars, schedVars>>

ClearColorAfter(mask, value) ==
    LET v == And(value, mask)
    IN  rgba5ToRgba6(Or(Shr(And(v, 2031616), 1), And(v, 32767)))

writeClearColor(mask, value) ==
    /\ clearColor' = ClearColorAfter(mask, value)
    /\ lastWrite' = [reg |-> "clearColor", mask |-> mask, value |-> value, old |-> clearColor]
    /\ UNCHANGED <<disp3DCnt, clearDepth, toonTable, mem, texRead, polygons, bufVars, rasterVars, schedVars>>

ClearDepthAfter(mask, value) ==
    LET v == And(value, mask)
    IN  v * 512 + ((v + 1) \div 32768) * 511

writeClearDepth(mask, value) ==
    /\ clearDepth' = ClearDepthAfter(mask, value)
    /\ lastWrite' = [reg |-> "clearDepth", mask |-> mask, value |-> value, old |-> clearDepth]
    /\ UNCHANGED <<disp3DCnt, clearColor, toonTable, mem, texRead, polygons, bufVars, rasterVars, schedVars>>

ToonAfter(mask, value) == rgba5ToRgba6(And(value, And(mask, ToonMask)))

writeToonTable(index, mask, value) ==
    /\ toonTable' = [toonTable EXCEPT ![index] = ToonAfter(mask, value)]
    /\ lastWrite' = [reg |-> "toonTable", mask |-> mask, value |-> value, old |-> toonTable[index]]
    /\ UNCHANGED <<disp3DCnt, clearColor, clearDepth, mem, texRead, polygons, bufVars, rasterVars, schedVars>>

\* --------------------------------------------------------------- memory view
\* A pointer into a slot: the slot's bytes and the offset in it. The bytes of a
\* slot are a short pattern that repeats through the slot.
getTexture(address) ==
    LET slot == textures[address \div TexSlotSize]
    IN  IF slot = NoSlot THEN NullPtr ELSE [ok |-> TRUE, mem |-> slot, off |-> address % TexSlotSize]

getPalette(address) ==
    LET slot == palettes[address \div PalSlotSize]
    IN  IF slot = NoSlot THEN NullPtr ELSE [ok |-> TRUE, mem |-> slot, off |-> address % PalSlotSize]

U8(ptr, i) == ptr.mem[((ptr.off + i) % Len(ptr.mem)) + 1]
U8TO16(ptr, i) == U8(ptr, i) + 256 * U8(ptr, i + 1)

\* -------------------------------------------------------------- texture unit
RECURSIVE WrapLoop(_, _, _)
WrapLoop(c, size, count) ==
    IF c < 0 THEN WrapLoop(c + size, size, count + 1)
    ELSE IF c >= size THEN WrapLoop(c - size, size, count + 1)
    ELSE <<c, count>>

\* The handling of a coordinate overflow: wrap (and flip every second repeat) or clamp
WrapCoord(c, size, repeat, flip) ==
    IF repeat
    THEN LET r == WrapLoop(c, size, 0)
         IN  IF flip /\ r[2] % 2 # 0 THEN size - 1 - r[1] ELSE r[1]
    ELSE IF c < 0 THEN 0
    ELSE IF c >= size THEN size - 1
    ELSE c

Texel(v) == [fault |-> FALSE, texel |-> v]

\* rgba5ToRgba6((0x1F << 15) | U8TO16(palette, index * 2))
PaletteColor(palette, index) == rgba5ToRgba6(Or(31 * Pow2(15), U8TO16(palette, index * 2)))

\* Formats 1 and 6: an index byte with alpha3/index5 or alpha5/index3
DecodeA3I5(polygon, s, t) ==
    LET data == getTexture(polygon.textureAddr + (t * polygon.sizeS + s))
        palette == getPalette(polygon.paletteAddr)
    IN  IF data = NullPtr THEN Texel(0)
        ELSE IF palette = NullPtr THEN Texel(0)
        ELSE LET index == U8(data, 0)
                 color == AndNot(U8TO16(palette, And(index, 31) * 2), BIT(15))
                 alpha == Shr(index, 5) * 4 + Shr(index, 5) \div 2
             IN  Texel(rgba5ToRgba6(alpha * Pow2(15) + color))

DecodeA5I3(polygon, s, t) ==
    LET data == getTexture(polygon.textureAddr + (t * polygon.sizeS + s))
        palette == getPalette(polygon.paletteAddr)
    IN  IF data = NullPtr THEN Texel(0)
        ELSE IF palette = NullPtr THEN Texel(0)
        ELSE LET index == U8(data, 0)
                 color == AndNot(U8TO16(palette, And(index, 7) * 2), BIT(15))
                 alpha == Shr(index, 3)
             IN  Texel(rgba5ToRgba6(alpha * Pow2(15) + color))

\* Formats 2, 3, 4: a palette index of 2, 4 or 8 bits (per == texels per byte)
DecodePaletted(polygon, s, t, per) ==
    LET data == getTexture(polygon.textureAddr + (t * polygon.sizeS + s) \div per)
        palette == getPalette(polygon.paletteAddr)
    IN  IF data = NullPtr THEN Texel(0)
        ELSE LET index == Low(Shr(U8(data, 0), (s % per) * (8 \div per)), 8 \div per)
             IN  IF polygon.transparent0 /\ index = 0 THEN Texel(0)
                 ELSE IF palette = NullPtr THEN Texel(0)
                 ELSE Texel(PaletteColor(palette, index))

\* Format 5: 4x4 compressed. The palette base of the tile is read through the
\* pointer getTexture returns without a check: reading it from an absent slot is
\* a null dereference, whose value, if the read returns at all, is `garbage`.
Decode4x4(polygon, s, t, garbage) ==
    LET tile == (t \div 4) * (polygon.sizeS \div 4) + (s \div 4)
        data == getTexture(polygon.textureAddr + (tile * 4 + (t % 4)))
        base == getTexture(TexSlotSize + (polygon.textureAddr % TexSlotSize) \div 2
                           + (IF polygon.textureAddr \div TexSlotSize = 2 THEN 65536 ELSE 0))
    IN  IF data = NullPtr THEN Texel(0)
        ELSE LET index == Low(Shr(U8(data, 0), (s % 4) * 2), 2)
                 palBase == IF base = NullPtr THEN garbage ELSE U8TO16(base, tile * 2)
                 palette == getPalette(polygon.paletteAddr + And(palBase, 16383) * 4)
                 mode == Shr(And(palBase, 49152), 14)
                 c1 == PaletteColor(palette, 0)
                 c2 == PaletteColor(palette, 1)
                 texel ==
                    IF palette = NullPtr THEN 0
                    ELSE CASE mode = 0 -> IF index = 3 THEN 0 ELSE PaletteColor(palette, index)
                           [] mode = 1 -> IF index = 2 THEN interpolateColor(c1, c2, 0, 1, 2)
                                          ELSE IF index = 3 THEN 0
                                          ELSE PaletteColor(palette, index)
                           [] mode = 2 -> PaletteColor(palette, index)
                           [] mode = 3 -> IF index = 2 THEN interpolateColor(c1, c2, 0, 3, 8)
                                          ELSE IF index = 3 THEN interpolateColor(c1, c2, 0, 5, 8)
                                          ELSE PaletteColor(palette, index)
             IN  [fault |-> base = NullPtr, texel |-> texel]

\* Format 7 (and every format the switch does not name): direct colour
DecodeDirect(polygon, s, t) ==
    LET data == getTexture(polygon.textureAddr)
    IN  IF data = NullPtr THEN Texel(0)
        ELSE LET color == U8TO16(data, (t * polygon.sizeS + s) * 2)
                 alpha == IF BitOf(color, 15) = 1 THEN 31 ELSE 0
             IN  Texel(rgba5ToRgba6(Or(alpha * Pow2(15), color)))

\* The texel at (s0, t0): [texel, fault], fault saying that an absent slot was
\* dereferenced on the way
readTexture(polygon, s0, t0, garbage) ==
    LET s == WrapCoord(s0, polygon.sizeS, polygon.repeatS, polygon.flipS)
        t == WrapCoord(t0, polygon.sizeT, polygon.repeatT, polygon.flipT)
    IN  CASE polygon.textureFmt = 1 -> DecodeA3I5(polygon, s, t)
          [] polygon.textureFmt = 2 -> DecodePaletted(polygon, s, t, 4)
          [] polygon.textureFmt = 3 -> DecodePaletted(polygon, s, t, 2)
          [] polygon.textureFmt = 4 -> DecodePaletted(polygon, s, t, 1)
          [] polygon.textureFmt = 5 -> Decode4x4(polygon, s, t, garbage)
          [] polygon.textureFmt = 6 -> DecodeA5I3(polygon, s, t)
          [] OTHER -> DecodeDirect(polygon, s, t)

\* What a read through a null pointer may yield when it does not trap
Garbage == {0, 16384 + 27}

\* One call of readTexture with the arguments texRead holds. A null dereference
\* either traps or goes on with a garbage value.
ReadTextureCall ==
    /\ ~texRead.called
    /\ \E g \in Garbage :
        LET r == readTexture(texRead.polygon, texRead.s, texRead.t, g)
        IN  \/ texRead' = [texRead EXCEPT !.called = TRUE, !.fault = r.fault,
                                          !.trapped = FALSE, !.texel = r.texel]
            \/ /\ r.fault
               /\ texRead' = [texRead EXCEPT !.called = TRUE, !.fault = TRUE,
                                             !.trapped = TRUE, !.texel = 0]
    /\ UNCHANGED <<regVars, mem, polygons, bufVars, rasterVars, schedVars>>

\* ------------------------------------------------------------ polygon setup
\* vertices[k] < vertices[j] in the order of the sort: by y, then by x
VertexBefore(a, b) == a.y < b.y \/ (a.y = b.y /\ a.x < b.x)

Swap(vs, j, k) == [vs EXCEPT ![j] = vs[k], ![k] = vs[j]]

\* The exchange sort of drawPolygon, on a 1-based sequence: for j, for k > j,
\* swap when vs[k] comes before vs[j]
RECURSIVE SortFrom(_, _, _)
SortFrom(vs, j, k) ==
    IF j >= Len(vs) THEN vs
    ELSE IF k > Len(vs) THEN SortFrom(vs, j + 1, j + 2)
    ELSE SortFrom(IF VertexBefore(vs[k], vs[j]) THEN Swap(vs, j, k) ELSE vs, j, k + 1)

SortVertices(polygon) == SortFrom(SubSeq(polygon.vertices, 1, polygon.size), 1, 2)

\* crosses[j], j in 0 .. size - 3: the side of vertex j + 1 (0-based) of the line
\* from the first to the last sorted vertex
Crosses(vs) ==
    LET n == Len(vs)
    IN  [j \in 0 .. n - 3 |->
            (vs[j + 2].x - vs[1].x) * (vs[n].y - vs[1].y) -
            (vs[j + 2].y - vs[1].y) * (vs[n].x - vs[1].x)]

\* The four loops that pick the edges; indices are the source's 0-based ones and
\* Y(vs, i) is vertices[i]->y
Y(vs, i) == vs[i + 1].y

\* The loop over j, had its test been line <= vertices[j]->y
RECURSIVE FindJNotStrict(_, _, _)
FindJNotStrict(vs, line, j) ==
    IF j >= Len(vs) THEN -1
    ELSE IF line <= Y(vs, j) THEN j
    ELSE FindJNotStrict(vs, line, j + 1)

RECURSIVE FindJ(_, _, _)
FindJ(vs, line, j) ==
    IF j >= Len(vs) THEN -1
    ELSE IF line < Y(vs, j) THEN j
    ELSE FindJ(vs, line, j + 1)

RECURSIVE FindV2(_, _, _)
FindV2(vs, crosses, v2) ==
    IF v2 >= Len(vs) THEN v2
    ELSE IF v2 = Len(vs) - 1 \/ crosses[v2 - 1] <= 0 THEN v2
    ELSE FindV2(vs, crosses, v2 + 1)

RECURSIVE CollapseV1(_, _)
CollapseV1(vs, v1) ==
    IF v1 > 0 /\ Y(vs, v1) = Y(vs, v1 - 1) THEN CollapseV1(vs, v1 - 1) ELSE v1

RECURSIVE FindV1(_, _, _)
FindV1(vs, crosses, v1) ==
    IF v1 < 0 THEN v1
    ELSE LET c == CollapseV1(vs, v1)
         IN  IF c = 0 \/ crosses[c - 1] <= 0 THEN c
             ELSE FindV1(vs, crosses, c - 1)

RECURSIVE CollapseV4(_, _)
CollapseV4(vs, v4) ==
    IF v4 < Len(vs) - 1 /\ Y(vs, v4) = Y(vs, v4 + 1) THEN CollapseV4(vs, v4 + 1) ELSE v4

RECURSIVE FindV4(_, _, _)
FindV4(vs, crosses, v4) ==
    IF v4 >= Len(vs) THEN v4
    ELSE LET c == CollapseV4(vs, v4)
         IN  IF c = Len(vs) - 1 \/ crosses[c - 1] > 0 THEN c
             ELSE FindV4(vs, crosses, c + 1)

RECURSIVE CollapseV3(_, _, _)
CollapseV3(vs, v3, v4) ==
    IF v3 > 0 /\ Y(vs, v3) = Y(vs, v4) THEN CollapseV3(vs, v3 - 1, v4) ELSE v3

RECURSIVE FindV3(_, _, _, _)
FindV3(vs, crosses, v3, v4) ==
    IF v3 < 0 THEN v3
    ELSE LET c == CollapseV3(vs, v3, v4)
         IN  IF c = 0 \/ crosses[c - 1] > 0 THEN c
             ELSE FindV3(vs, crosses, c - 1, v4)

\* The edges drawPolygon hands to rasterize on a scanline, as 0-based indices
\* into the sorted vertices, or culled when the scanline misses the polygon
PolygonEdges(line, polygon) ==
    LET vs == SortVertices(polygon)
        n  == Len(vs)
    IN  IF line < Y(vs, 0) \/ line >= Y(vs, n - 1)
        THEN [culled |-> TRUE, vs |-> vs, v1 |-> 0, v2 |-> 0, v3 |-> 0, v4 |-> 0]
        ELSE LET crosses == Crosses(vs)
                 j  == FindJ(vs, line, 1)
                 v2 == FindV2(vs, crosses, j)
                 v1 == FindV1(vs, crosses, v2 - 1)
                 v4 == FindV4(vs, crosses, j)
                 v3 == FindV3(vs, crosses, v4 - 1, v4)
             IN  [culled |-> FALSE, vs |-> vs, v1 |-> v1, v2 |-> v2, v3 |-> v3, v4 |-> v4]

\* One call of drawPolygon with the arguments setup holds, up to the call of
\* rasterize: the sorted vertices and the indices of the four it passes
DrawPolygonCall ==
    /\ ~setup.called
    /\ LET e == PolygonEdges(setup.line, setup.polygon)
       IN  setup' = [called |-> TRUE, line |-> setup.line, polygon |-> setup.polygon,
                     culled |-> e.culled, vs |-> e.vs,
                     v1 |-> e.v1, v2 |-> e.v2, v3 |-> e.v3, v4 |-> e.v4]
    /\ UNCHANGED <<regVars, texVars, polygons, bufVars, rs, lastPixel, drawLog, prevEnd, schedVars>>

\* -------------------------------------------------------- scanline rasterizer
FitsInt16(w) == w >= -32768 /\ w <= 32767

\* The W values reduced to 16 bits: <<vw, wShift>>
RECURSIVE NormalizeW(_, _, _)
NormalizeW(vw, wShift, i) ==
    IF i > 4 THEN <<vw, wShift>>
    ELSE IF FitsInt16(vw[i]) THEN NormalizeW(vw, wShift, i + 1)
    ELSE NormalizeW([k \in 1 .. 4 |-> vw[k] \div 16], wShift + 4, i)

\* What rasterize computes once per scanline: the span and the edge values
Span(line, polygon, v1, v2, v3, v4) ==
    LET nw == NormalizeW(<<v1.w, v2.w, v3.w, v4.w>>, 0, 1)
        vw == nw[1]
    IN  [x1 |-> interpolate(v1.x, v2.x, v1.y, line, v2.y),
         x2 |-> interpolate(v3.x, v4.x, v3.y, line, v4.y),
         z1 |-> IF polygon.wBuffer THEN 0 ELSE interpolate(v1.z, v2.z, v1.y, line, v2.y),
         z2 |-> IF polygon.wBuffer THEN 0 ELSE interpolate(v3.z, v4.z, v3.y, line, v4.y),
         w1 |-> interpolateW(vw[1], vw[2], v1.y, line, v2.y),
         w2 |-> interpolateW(vw[3], vw[4], v3.y, line, v4.y),
         wShift |-> nw[2],
         c1 |-> interpolateColorP(v1.color, v2.color, v1.y, line, v2.y, vw[1], vw[2]),
         c2 |-> interpolateColorP(v3.color, v4.color, v3.y, line, v4.y, vw[3], vw[4]),
         s1 |-> interpolateP(v1.s, v2.s, v1.y, line, v2.y, vw[1], vw[2]),
         s2 |-> interpolateP(v3.s, v4.s, v3.y, line, v4.y, vw[3], vw[4]),
         t1 |-> interpolateP(v1.t, v2.t, v1.y, line, v2.y, vw[1], vw[2]),
         t2 |-> interpolateP(v3.t, v4.t, v3.y, line, v4.y, vw[3], vw[4])]

SpanOf(line, polygon) ==
    LET e == PolygonEdges(line, polygon)
    IN  Span(line, polygon, e.vs[e.v1 + 1], e.vs[e.v2 + 1], e.vs[e.v3 + 1], e.vs[e.v4 + 1])

PixelDepth(polygon, sp, x) ==
    IF polygon.wBuffer
    THEN interpolateW(sp.w1, sp.w2, sp.x1, x, sp.x2) * Pow2(sp.wShift)
    ELSE interpolate(sp.z1, sp.z2, sp.x1, x, sp.x2)

\* The depth test, had its comparison been >= instead of >
DepthTestNotStrict(polygon, old, depth) ==
    (polygon.depthTestEqual /\ old - DepthMargin >= depth) \/ old >= depth

\* The depth test: less-than, or the "equal" test with its margin
DepthTest(polygon, old, depth) ==
    (polygon.depthTestEqual /\ old - DepthMargin >= depth) \/ old > depth

\* ((a + 1) * (b + 1) - 1) / 64
Modulate(a, b) == ((a + 1) * (b + 1) - 1) \div 64
\* (t * at + c * (63 - at)) / 64
Decal(t, c, at) == (t * at + c * (63 - at)) \div 64
ClampAdd(a, b) == IF a + b > 63 THEN 63 ELSE a + b

\* The blend of a texel with the vertex colour, by polygon mode
BlendTexel(polygon, texel, color) ==
    CASE polygon.mode = 0 ->
            Pack6(Modulate(ChanR(texel), ChanR(color)), Modulate(ChanG(texel), ChanG(color)),
                  Modulate(ChanB(texel), ChanB(color)), Modulate(ChanA(texel), ChanA(color)))
      [] polygon.mode \in {1, 3} ->
            LET at == ChanA(texel)
            IN  Pack6(Decal(ChanR(texel), ChanR(color), at), Decal(ChanG(texel), ChanG(color), at),
                      Decal(ChanB(texel), ChanB(color), at), ChanA(color))
      [] polygon.mode = 2 ->
            LET toon == toonTable[ChanR(color) \div 2]
                r == Modulate(ChanR(texel), ChanR(toon))
                g == Modulate(ChanG(texel), ChanG(toon))
                b == Modulate(ChanB(texel), ChanB(toon))
                a == Modulate(ChanA(texel), ChanA(color))
            IN  IF BitOf(disp3DCnt, 1) = 1
                THEN Pack6(ClampAdd(r, ChanR(toon)), ClampAdd(g, ChanG(toon)), ClampAdd(b, ChanB(toon)), a)
                ELSE Pack6(r, g, b, a)
      [] OTHER -> color

\* The colour of a pixel that passed the depth test and the shadow logic
PixelColor(polygon, sp, x) ==
    LET color == interpolateColorP(sp.c1, sp.c2, sp.x1, x, sp.x2, sp.w1, sp.w2)
    IN  IF polygon.textureFmt # 0
        THEN LET s == interpolateP(sp.s1, sp.s2, sp.x1, x, sp.x2, sp.w1, sp.w2)
                 t == interpolateP(sp.t1, sp.t2, sp.x1, x, sp.x2, sp.w1, sp.w2)
             IN  BlendTexel(polygon, readTexture(polygon, s \div 16, t \div 16, 0).texel, color)
        ELSE color

\* The buffers of the renderer, as one record, so that a step is a function
Bufs(fb, depth, attrib, stencil) == [fb |-> fb, depth |-> depth, attrib |-> attrib, stencil |-> stencil]

\* The tile buffer a scanline uses: line / 48
TileOf(line) == line \div TileLines

\* PixelOutcome without the "continue" of the shadow polygons with id 0
PixelOutcomeShadow0Draws(b, line, polygon, sp, x) ==
    LET tl == TileOf(line)
    IN  IF ~DepthTest(polygon, b.depth[tl][x], PixelDepth(polygon, sp, x)) THEN "fail"
        ELSE IF polygon.mode = 3 /\ polygon.id # 0 /\ (b.stencil[tl][x] # 0 \/ b.attrib[tl][x] = polygon.id)
        THEN "shadowSkip"
        ELSE LET color == PixelColor(polygon, sp, x)
             IN  IF ChanA(color) = 0 THEN "discard"
                 ELSE IF ChanAFull(color) < 63 /\ ChanA(b.fb[line * Width + x]) # 0 THEN "blend"
                 ELSE "write"

\* PixelOutcome without the comparison of the attribute with the polygon id
PixelOutcomeNoAttrib(b, line, polygon, sp, x) ==
    LET tl == TileOf(line)
    IN  IF ~DepthTest(polygon, b.depth[tl][x], PixelDepth(polygon, sp, x)) THEN "fail"
        ELSE IF polygon.mode = 3 /\ polygon.id = 0 THEN "stencilSet"
        ELSE IF polygon.mode = 3 /\ b.stencil[tl][x] # 0
        THEN "shadowSkip"
        ELSE LET color == PixelColor(polygon, sp, x)
             IN  IF ChanA(color) = 0 THEN "discard"
                 ELSE IF ChanAFull(color) < 63 /\ ChanA(b.fb[line * Width + x]) # 0 THEN "blend"
                 ELSE "write"

\* The branch one iteration of rasterize's loop takes at column x:
\*   "fail"       the depth test failed
\*   "stencilSet" a shadow polygon with id 0 set the stencil bit
\*   "shadowSkip" a shadow polygon with another id met a stencil bit or its own id
\*   "discard"    the colour has alpha 0
\*   "blend"      a translucent colour was blended over a pixel with alpha
\*   "write"      the colour was stored
PixelOutcome(b, line, polygon, sp, x) ==
    LET tl == TileOf(line)
    IN  IF ~DepthTest(polygon, b.depth[tl][x], PixelDepth(polygon, sp, x)) THEN "fail"
        ELSE IF polygon.mode = 3 /\ polygon.id = 0 THEN "stencilSet"
        ELSE IF polygon.mode = 3 /\ (b.stencil[tl][x] # 0 \/ b.attrib[tl][x] = polygon.id)
        THEN "shadowSkip"
        ELSE LET color == PixelColor(polygon, sp, x)
             IN  IF ChanA(color) = 0 THEN "discard"
                 ELSE IF ChanAFull(color) < 63 /\ ChanA(b.fb[line * Width + x]) # 0 THEN "blend"
                 ELSE "write"

\* One iteration of rasterize's loop at column x: the new buffers
RasterPixel(b, line, polygon, sp, x) ==
    LET tl == TileOf(line)
        depth == PixelDepth(polygon, sp, x)
        px == line * Width + x
        outcome == PixelOutcome(b, line, polygon, sp, x)
        color == PixelColor(polygon, sp, x)
    IN  CASE outcome = "fail" -> b
          [] outcome = "stencilSet" -> [b EXCEPT !.stencil[tl][x] = 1]
          [] outcome = "shadowSkip" -> [b EXCEPT !.stencil[tl][x] = 0]
          [] outcome = "discard" -> b
          [] outcome = "blend" ->
                [b EXCEPT !.fb[px] = BIT(26) + interpolateColor(b.fb[px], color, 0, ChanAFull(color), 63),
                          !.depth[tl][x] = IF polygon.transNewDepth THEN depth ELSE @,
                          !.attrib[tl][x] = polygon.id]
          [] outcome = "write" ->
                [b EXCEPT !.fb[px] = BIT(26) + color,
                          !.depth[tl][x] = depth,
                          !.attrib[tl][x] = polygon.id]

\* rasterize's loop from column x on
RECURSIVE RasterFrom(_, _, _, _, _)
RasterFrom(b, line, polygon, sp, x) ==
    IF x >= sp.x2 THEN b
    ELSE RasterFrom(RasterPixel(b, line, polygon, sp, x), line, polygon, sp, x + 1)

drawPolygon(b, line, polygon) ==
    LET e == PolygonEdges(line, polygon)
    IN  IF e.culled THEN b
        ELSE LET sp == Span(line, polygon, e.vs[e.v1 + 1], e.vs[e.v2 + 1], e.vs[e.v3 + 1], e.vs[e.v4 + 1])
             IN  RasterFrom(b, line, polygon, sp, sp.x1)

\* --------------------------------------------------------------- drawScanline1
\* drawScanline1's clear, had it cleared the tile's buffers on the tile's first
\* scanline only
ClearLineAtTileStart(b, line) ==
    IF line % TileLines = 0
    THEN [fb |-> [i \in DOMAIN b.fb |-> IF i \div Width = line THEN clearColor ELSE b.fb[i]],
          depth |-> [b.depth EXCEPT ![TileOf(line)] = [x \in 0 .. Width - 1 |-> clearDepth]],
          attrib |-> [b.attrib EXCEPT ![TileOf(line)] = [x \in 0 .. Width - 1 |-> 0]],
          stencil |-> [b.stencil EXCEPT ![TileOf(line)] = [x \in 0 .. Width - 1 |-> 0]]]
    ELSE [b EXCEPT !.fb = [i \in DOMAIN b.fb |-> IF i \div Width = line THEN clearColor ELSE b.fb[i]]]

\* The clear at the head of drawScanline1
ClearLine(b, line) ==
    [fb |-> [i \in DOMAIN b.fb |-> IF i \div Width = line THEN clearColor ELSE b.fb[i]],
     depth |-> [b.depth EXCEPT ![TileOf(line)] = [x \in 0 .. Width - 1 |-> clearDepth]],
     attrib |-> [b.attrib EXCEPT ![TileOf(line)] = [x \in 0 .. Width - 1 |-> 0]],
     stencil |-> [b.stencil EXCEPT ![TileOf(line)] = [x \in 0 .. Width - 1 |-> 0]]]

\* The test that saves a polygon for the translucent pass
IsTranslucent(polygon) ==
    ChanAFull(polygon.vertices[1].color) < 63 \/ polygon.textureFmt = 1 \/ polygon.textureFmt = 6

\* The drawPolygon calls of drawScanline1, in order, each [idx, pass]: the solid
\* polygons as the first loop meets them, then the ones it saved
SolidPass(polys) ==
    SelectSeq([i \in 1 .. Len(polys) |-> [idx |-> i, pass |-> "solid"]],
              LAMBDA e : ~IsTranslucent(polys[e.idx]))

TranslucentPass(polys) ==
    SelectSeq([i \in 1 .. Len(polys) |-> [idx |-> i, pass |-> "translucent"]],
              LAMBDA e : IsTranslucent(polys[e.idx]))

DrawOrder(polys) == SolidPass(polys) \o TranslucentPass(polys)

RECURSIVE DrawAll(_, _, _, _)
DrawAll(b, line, polys, order) ==
    IF order = << >> THEN b
    ELSE DrawAll(drawPolygon(b, line, polys[Head(order).idx]), line, polys, Tail(order))

\* The whole of drawScanline1
drawScanline1(b, line) == DrawAll(ClearLine(b, line), line, polygons, DrawOrder(polygons))

CurBufs == Bufs(framebuffer, depthBuffer, attribBuffer, stencilBuffer)

SetBufs(b) ==
    /\ framebuffer' = b.fb
    /\ depthBuffer' = b.depth
    /\ attribBuffer' = b.attrib
    /\ stencilBuffer' = b.stencil

\* The buffers of one tile
TileBufs(b, tl) == [depth |-> b.depth[tl], attrib |-> b.attrib[tl], stencil |-> b.stencil[tl]]

\* ------------------------------------------- drawScanline1, one step at a time
\* Single-threaded mode: drawScanline(line) is drawScanline1(line). The host
\* draws the scanlines in order; the stepwise run covers the first tile and the
\* first scanline of the second.
RasterLines == TileLines + 1
NextLine == rs.line + 1

\* The clear at the head of drawScanline1(line)
R_Clear ==
    /\ rs.pc = "idle"
    /\ NextLine < RasterLines
    /\ LET line == NextLine
       IN  /\ SetBufs(ClearLine(CurBufs, line))
           /\ rs' = [pc |-> "polys", line |-> line, queue |-> DrawOrder(polygons), cur |-> 0, x |-> 0]
           /\ prevEnd' = [valid |-> rs.line >= 0, line |-> rs.line,
                          tile |-> TileBufs(CurBufs, TileOf(line))]
    /\ lastPixel' = NoPixel
    /\ drawLog' = << >>
    /\ UNCHANGED <<regVars, texVars, polygons, setup, schedVars>>

\* The next drawPolygon call, up to the head of rasterize's loop
R_DrawPolygon ==
    /\ rs.pc = "polys"
    /\ rs.queue # << >>
    /\ LET e == Head(rs.queue)
           polygon == polygons[e.idx]
       IN  /\ drawLog' = Append(drawLog, e)
           /\ IF PolygonEdges(rs.line, polygon).culled
              THEN rs' = [rs EXCEPT !.queue = Tail(@)]
              ELSE LET sp == SpanOf(rs.line, polygon)
                   IN  IF sp.x1 < sp.x2
                       THEN rs' = [rs EXCEPT !.pc = "span", !.queue = Tail(@), !.cur = e.idx, !.x = sp.x1]
                       ELSE rs' = [rs EXCEPT !.queue = Tail(@)]
    /\ UNCHANGED <<regVars, texVars, polygons, bufVars, lastPixel, prevEnd, setup, schedVars>>

\* One iteration of rasterize's loop
R_Pixel ==
    /\ rs.pc = "span"
    /\ LET polygon == polygons[rs.cur]
           sp == SpanOf(rs.line, polygon)
       IN  /\ SetBufs(RasterPixel(CurBufs, rs.line, polygon, sp, rs.x))
           /\ lastPixel' = [fresh |-> TRUE, line |-> rs.line, x |-> rs.x, idx |-> rs.cur,
                            depth |-> PixelDepth(polygon, sp, rs.x),
                            outcome |-> PixelOutcome(CurBufs, rs.line, polygon, sp, rs.x),
                            before |-> CurBufs]
           /\ rs' = IF rs.x + 1 < sp.x2 THEN [rs EXCEPT !.x = @ + 1] ELSE [rs EXCEPT !.pc = "polys"]
    /\ UNCHANGED <<regVars, texVars, polygons, drawLog, prevEnd, setup, schedVars>>

\* drawScanline1 returns
R_Return ==
    /\ rs.pc = "polys"
    /\ rs.queue = << >>
    /\ rs' = [rs EXCEPT !.pc = "idle"]
    /\ UNCHANGED <<regVars, texVars, polygons, bufVars, lastPixel, drawLog, prevEnd, setup, schedVars>>

\* ------------------------------------------------- drawScanline, tile threads
\* The first scanline of worker i: i * 48, had the blocks overlapped by a line
WorkerStartOverlap(i) == i * (TileLines - 1)

\* The first scanline of worker i: i * 48
WorkerStart(i) == i * TileLines

\* The bound of drawScanline48's loop, had it been line + 47
BlockEndShort(start) == start + TileLines - 1

\* The bound of drawScanline48's loop: line + 48
BlockEnd(start) == start + TileLines

\* A std::thread running drawScanline48(i * 48), as created: line is the loop
\* variable, log the drawScanline1 calls that returned, fbCells and bufCells the
\* framebuffer words and the tile buffer cells its stores were addressed to
NewThread(i) ==
    [start |-> WorkerStart(i), line |-> WorkerStart(i), pc |-> "clear", log |-> << >>,
     fbCells |-> {}, bufCells |-> {}]

\* The thread threads[i] points to
Pointee(i) == live[i][threads[i]]

\* thread::join, had it returned without waiting
JoinReturnsAtOnce(w) == TRUE

\* thread::join returns once the thread has left drawScanline48
JoinReturns(w) == w.pc = "done"

RemoveAt(s, k) == [j \in 1 .. Len(s) - 1 |-> IF j < k THEN s[j] ELSE s[j + 1]]

\* The threads of slot i once threads[i] was joined and deleted, if it is set
AfterJoin(i) == IF threads[i] # 0 THEN RemoveAt(live[i], threads[i]) ELSE live[i]

\* What the join of threads[i] found, if it is set
JoinedThread(i) ==
    IF threads[i] # 0 THEN [pc |-> Pointee(i).pc, log |-> Pointee(i).log] ELSE finished[i]

\* The scanline of the host's next drawScanline call: the one after the last,
\* or 0 again (the frame is restarted)
HostLines == {0} \cup {l \in {host.line + 1} : l < NumLines}

\* The columns rasterize's loop visits for a polygon on a scanline
SpanColumns(line, polygon) ==
    LET e == PolygonEdges(line, polygon)
        v1 == e.vs[e.v1 + 1]
        v2 == e.vs[e.v2 + 1]
        v3 == e.vs[e.v3 + 1]
        v4 == e.vs[e.v4 + 1]
    IN  IF e.culled THEN {}
        ELSE interpolate(v1.x, v2.x, v1.y, line, v2.y) .. interpolate(v3.x, v4.x, v3.y, line, v4.y) - 1

\* The columns the drawPolygon calls of a scanline visit
DrawColumns(line) == UNION {SpanColumns(line, polygons[k]) : k \in DOMAIN polygons}

\* The columns drawScanline1's clear visits
ClearColumns == 0 .. Width - 1

\* The framebuffer words and the tile buffer cells that the stores of
\* drawScanline1(line) at these columns are addressed to
FbCells(line, cols) == {line * Width + x : x \in cols}
BufCells(line, cols) == {<<TileOf(line), x>> : x \in cols}

\* drawScanline(line), threaded off: the scanline is drawn by the caller
drawScanlineSingle(line) ==
    /\ ~threaded
    /\ host.pc = "idle"
    /\ SetBufs(drawScanline1(CurBufs, line))
    /\ host' = [host EXCEPT !.line = line]
    /\ UNCHANGED <<regVars, texVars, polygons, rasterVars, threaded, threads, live, finished>>

\* drawScanline(0), threaded on: the host enters the loop over the four threads
drawScanlineFrame(line) ==
    /\ threaded
    /\ host.pc = "idle"
    /\ line = 0
    /\ host' = [pc |-> "spawn", line |-> line, i |-> 0]
    /\ UNCHANGED <<regVars, texVars, polygons, bufVars, rasterVars, threaded, threads, live, finished>>

\* One iteration of the loop: the thread of slot i, if any, is joined and
\* deleted, and a new one is created; after the last one drawScanline returns
SpawnThread ==
    /\ host.pc = "spawn"
    /\ LET i == host.i
       IN  /\ threads[i] # 0 => JoinReturns(Pointee(i))
           /\ finished' = [finished EXCEPT ![i] = JoinedThread(i)]
           /\ live' = [live EXCEPT ![i] = Append(AfterJoin(i), NewThread(i))]
           /\ threads' = [threads EXCEPT ![i] = Len(AfterJoin(i)) + 1]
           /\ host' = IF i + 1 < NumTiles THEN [host EXCEPT !.i = i + 1]
                      ELSE [host EXCEPT !.pc = "idle"]
    /\ UNCHANGED <<regVars, texVars, polygons, bufVars, rasterVars, threaded>>

\* drawScanline(line) on the last scanline of a tile, threaded on: the thread
\* of the tile, if any, is joined and deleted and its pointer reset
drawScanlineTileEnd(line) ==
    /\ threaded
    /\ host.pc = "idle"
    /\ line # 0
    /\ line % TileLines = TileLines - 1
    /\ LET i == line \div TileLines
       IN  /\ threads[i] # 0 => JoinReturns(Pointee(i))
           /\ finished' = [finished EXCEPT ![i] = JoinedThread(i)]
           /\ live' = [live EXCEPT ![i] = AfterJoin(i)]
           /\ threads' = [threads EXCEPT ![i] = 0]
    /\ host' = [host EXCEPT !.line = line]
    /\ UNCHANGED <<regVars, texVars, polygons, bufVars, rasterVars, threaded>>

\* drawScanline(line) on any other scanline, threaded on: nothing to do
drawScanlineOther(line) ==
    /\ threaded
    /\ host.pc = "idle"
    /\ line # 0
    /\ line % TileLines # TileLines - 1
    /\ host' = [host EXCEPT !.line = line]
    /\ UNCHANGED <<regVars, texVars, polygons, bufVars, rasterVars, threaded, threads, live, finished>>

\* A thread in drawScanline48: the clear at the head of drawScanline1(line)
WorkerClear(i, k) ==
    /\ k \in DOMAIN live[i]
    /\ live[i][k].pc = "clear"
    /\ LET w == live[i][k]
       IN  /\ SetBufs(ClearLine(CurBufs, w.line))
           /\ live' = [live EXCEPT ![i][k] =
                         [w EXCEPT !.pc = "draw",
                                   !.fbCells = @ \cup FbCells(w.line, ClearColumns),
                                   !.bufCells = @ \cup BufCells(w.line, ClearColumns)]]
    /\ UNCHANGED <<regVars, texVars, polygons, rasterVars, threaded, threads, host, finished>>

\* A thread in drawScanline48: the two polygon loops of drawScanline1(line), and
\* the step of drawScanline48's loop
WorkerDraw(i, k) ==
    /\ k \in DOMAIN live[i]
    /\ live[i][k].pc = "draw"
    /\ LET w == live[i][k]
           cols == DrawColumns(w.line)
       IN  /\ SetBufs(DrawAll(CurBufs, w.line, polygons, DrawOrder(polygons)))
           /\ live' = [live EXCEPT ![i][k] =
                         [w EXCEPT !.pc = IF w.line + 1 < BlockEnd(w.start) THEN "clear" ELSE "done",
                                   !.line = @ + 1,
                                   !.log = Append(@, w.line),
                                   !.fbCells = @ \cup FbCells(w.line, cols),
                                   !.bufCells = @ \cup BufCells(w.line, cols)]]
    /\ UNCHANGED <<regVars, texVars, polygons, rasterVars, threaded, threads, host, finished>>

\* The destructor joins and deletes the threads that are set
Destructor ==
    /\ host.pc = "idle"
    /\ \A i \in 0 .. NumTiles - 1 : threads[i] # 0 => JoinReturns(Pointee(i))
    /\ finished' = [i \in 0 .. NumTiles - 1 |-> JoinedThread(i)]
    /\ live' = [i \in 0 .. NumTiles - 1 |-> AfterJoin(i)]
    /\ host' = [host EXCEPT !.pc = "destroyed"]
    /\ UNCHANGED <<regVars, texVars, polygons, bufVars, rasterVars, threaded, threads>>

\* The setting Settings::getThreaded3D() returns is changed by the frontend,
\* between two drawScanline calls of the host
SetThreaded3D ==
    /\ host.pc = "idle"
    /\ threaded' = ~threaded
    /\ UNCHANGED <<regVars, texVars, polygons, bufVars, rasterVars, threads, live, host, finished>>

\* drawScanline(line), threaded off, seen from the other threads: the host is
\* in drawScanline1(line), the clear at its head is done
HostClear(line) ==
    /\ ~threaded
    /\ host.pc = "idle"
    /\ SetBufs(ClearLine(CurBufs, line))
    /\ host' = [host EXCEPT !.pc = "draw", !.line = line]
    /\ UNCHANGED <<regVars, texVars, polygons, rasterVars, threaded, threads, live, finished>>

\* The two polygon loops of the host's drawScanline1(line); drawScanline returns
HostDraw ==
    /\ host.pc = "draw"
    /\ SetBufs(DrawAll(CurBufs, host.line, polygons, DrawOrder(polygons)))
    /\ host' = [host EXCEPT !.pc = "idle"]
    /\ UNCHANGED <<regVars, texVars, polygons, rasterVars, threaded, threads, live, finished>>

\* ------------------------------------------------------------ specifications
\* The register values and write arguments of the register specification. The
\* register starts with any combination of one bit of the low group (bit 1), the
\* two sticky error bits (12, 13, which the geometry engine sets), bit 14 and
\* bit 15.
RECURSIVE SumSet(_)
SumSet(S) == IF S = {} THEN 0 ELSE LET e == CHOOSE e \in S : TRUE IN e + SumSet(S \ {e})

RegBits == {BIT(1), BIT(12), BIT(13), BIT(14), BIT(15)}
RegValues == {SumSet(S) : S \in SUBSET RegBits}
WriteValues == {0, BIT(1), BIT(12) + BIT(14), BIT(13) + BIT(14), BIT(12) + BIT(13), BIT(15) + BIT(1), SumSet(RegBits)}
RegMasks == {0, 255, 65280, 65535}

InitRegs ==
    /\ clearColor = 0
    /\ clearDepth = 16777215
    /\ toonTable = [i \in 0..31 |-> 0]

\* The buffers of the renderer after construction
InitFrame ==
    /\ framebuffer = [i \in 0 .. NumLines * Width - 1 |-> 0]
    /\ depthBuffer = [t \in 0 .. NumTiles - 1 |-> [x \in 0 .. Width - 1 |-> 0]]
    /\ attribBuffer = [t \in 0 .. NumTiles - 1 |-> [x \in 0 .. Width - 1 |-> 0]]
    /\ stencilBuffer = [t \in 0 .. NumTiles - 1 |-> [x \in 0 .. Width - 1 |-> 0]]

InitRaster0 ==
    /\ rs = [pc |-> "idle", line |-> -1, queue |-> << >>, cur |-> 0, x |-> 0]
    /\ lastPixel = NoPixel
    /\ drawLog = << >>
    /\ prevEnd = NoPrev
    /\ setup = NoSetup

InitThreads ==
    /\ threads = [i \in 0 .. NumTiles - 1 |-> 0]
    /\ live = [i \in 0 .. NumTiles - 1 |-> << >>]
    /\ host = [pc |-> "idle", line |-> -1, i |-> 0]
    /\ finished = [i \in 0 .. NumTiles - 1 |-> NoThread]

InitSched0 == threaded = FALSE /\ InitThreads

InitReg ==
    /\ disp3DCnt \in RegValues
    /\ InitRegs
    /\ lastWrite = NoWrite
    /\ textures = [i \in TexSlots |-> NoSlot]
    /\ palettes = [i \in PalSlots |-> NoSlot]
    /\ texRead = NoRead
    /\ polygons = << >>
    /\ InitFrame /\ InitRaster0 /\ InitSched0

NextReg ==
    \/ \E mask \in RegMasks, value \in WriteValues : writeDisp3DCnt(mask, value)
    \/ \E mask \in {2147483647}, value \in {2031616 + 31} : writeClearColor(mask, value)
    \/ \E mask \in {65535}, value \in {32767, 1} : writeClearDepth(mask, value)
    \/ \E index \in {31}, mask \in {65535}, value \in {65535} : writeToonTable(index, mask, value)

SpecReg == InitReg /\ [][NextReg]_vars

\* The texture specification: every presence pattern of the texture slots 0..2
\* and of the palette slots 0..1, and one sample of one polygon.
SlotBytes == <<27, 64, 228, 192, 255, 128>>
TexPolygons ==
    [textureFmt : 1 .. 7, textureAddr : {0, TexSlotSize + 16, 2 * TexSlotSize},
     paletteAddr : {0, PalSlotSize + 8}, transparent0 : BOOLEAN,
     sizeS : {8}, sizeT : {8}, repeatS : BOOLEAN, flipS : BOOLEAN,
     repeatT : {FALSE}, flipT : {FALSE}]

InitTex ==
    /\ disp3DCnt = 0
    /\ InitRegs
    /\ lastWrite = NoWrite
    /\ textures \in {f \in [TexSlots -> {NoSlot, SlotBytes}] : f[3] = NoSlot}
    /\ palettes \in {f \in [PalSlots -> {NoSlot, SlotBytes}] : \A i \in 2 .. 7 : f[i] = NoSlot}
    /\ \E polygon \in TexPolygons, s \in {-1, 2, 9}, t \in {1, 5} :
         texRead = [called |-> FALSE, polygon |-> polygon, s |-> s, t |-> t,
                    fault |-> FALSE, trapped |-> FALSE, texel |-> 0]
    /\ polygons = << >>
    /\ InitFrame /\ InitRaster0 /\ InitSched0

NextTex == ReadTextureCall

SpecTex == InitTex /\ [][NextTex]_vars

\* The rasterizer specification: single-threaded mode, one polygon list per
\* behaviour, the host drawing scanline after scanline.
Vtx(x, y, z, w, color, s, t) == [x |-> x, y |-> y, z |-> z, w |-> w, color |-> color, s |-> s, t |-> t]

\* A quad over the columns xa .. xb - 1 of every scanline, at depth z
Quad(xa, xb, z, w, c1, c2) ==
    <<Vtx(xa, 0, z, w, c1, 0, 0), Vtx(xb, 0, z, w, c2, 128, 0),
      Vtx(xb, NumLines, z, w, c2, 128, 128), Vtx(xa, NumLines, z, w, c2, 0, 128)>>

Polygon(vertices, id, mode, alphaFlags) ==
    [size |-> Len(vertices), vertices |-> vertices, id |-> id, mode |-> mode,
     textureFmt |-> 0, textureAddr |-> 0, paletteAddr |-> 0, transparent0 |-> FALSE,
     sizeS |-> 8, sizeT |-> 8, repeatS |-> FALSE, flipS |-> FALSE, repeatT |-> FALSE, flipT |-> FALSE,
     wBuffer |-> FALSE, depthTestEqual |-> alphaFlags.eq, transNewDepth |-> alphaFlags.tnd]

Flags(eq, tnd) == [eq |-> eq, tnd |-> tnd]

Red == Pack6(63, 0, 0, 63)
Green == Pack6(0, 63, 0, 63)
Blue31 == Pack6(0, 0, 63, 31)
Grey31 == Pack6(20, 20, 20, 31)
Grey0 == Pack6(20, 20, 20, 0)

PolyOpaque == Polygon(Quad(0, Width, 2048, 4096, Red, Red), 1, 0, Flags(FALSE, FALSE))
PolyOpaque5 == Polygon(Quad(1, Width, 1280, 4096, Green, Green), 5, 0, Flags(FALSE, FALSE))
PolyTrans == Polygon(Quad(0, Width, 1024, 4096, Blue31, Blue31), 2, 0, Flags(FALSE, FALSE))
PolyTransNewDepth == Polygon(Quad(0, Width, 768, 4096, Blue31, Blue31), 3, 0, Flags(FALSE, TRUE))
PolyShadow0 == Polygon(Quad(0, Width - 1, 1536, 4096, Grey31, Grey31), 0, 3, Flags(FALSE, FALSE))
PolyShadow5 == Polygon(Quad(0, Width, 1024, 4096, Grey31, Grey31), 5, 3, Flags(FALSE, FALSE))
PolyShadow5Alpha0 == Polygon(Quad(0, Width, 1024, 4096, Grey0, Grey0), 5, 3, Flags(FALSE, FALSE))
PolyMixed == Polygon(Quad(0, Width, 1792, 4096, Red, Blue31), 6, 0, Flags(FALSE, FALSE))
PolyEqual == Polygon(Quad(0, Width, 2048, 4096, Green, Green), 7, 0, Flags(TRUE, FALSE))
PolyEqualNear == Polygon(Quad(0, Width, 1792, 4096, Green, Green), 11, 0, Flags(TRUE, FALSE))
PolyTextured ==
    [Polygon(Quad(0, Width, 512, 4096, Red, Red), 8, 0, Flags(FALSE, FALSE)) EXCEPT !.textureFmt = 1]
PolyWBuffer ==
    [Polygon(Quad(0, Width, 0, 65536, Green, Green), 9, 0, Flags(FALSE, FALSE)) EXCEPT !.wBuffer = TRUE]
PolyTriangle ==
    Polygon(<<Vtx(0, 0, 256, 4096, Red, 0, 0), Vtx(Width, NumLines, 256, 4096, Red, 0, 0),
              Vtx(0, NumLines, 256, 4096, Red, 0, 0)>>, 10, 0, Flags(FALSE, FALSE))

Library ==
    {PolyOpaque, PolyOpaque5, PolyTrans, PolyTransNewDepth, PolyShadow0, PolyShadow5,
     PolyShadow5Alpha0, PolyMixed, PolyEqual, PolyEqualNear, PolyTextured, PolyWBuffer, PolyTriangle}

Scenes ==
    {<<p>> : p \in Library} \cup {<<p, q>> : p, q \in Library} \cup
    {<<PolyOpaque, PolyShadow0, PolyShadow5>>, <<PolyOpaque5, PolyShadow0, PolyShadow5>>,
     <<PolyShadow0, PolyShadow5, PolyOpaque>>, <<PolyTrans, PolyOpaque, PolyMixed>>}

InitRaster ==
    /\ disp3DCnt = 0
    /\ clearColor \in {0, ClearColorAfter(2147483647, 2031616 + 31)}
    /\ clearDepth = ClearDepthAfter(65535, 32767)
    /\ toonTable = [i \in 0 .. 31 |-> 0]
    /\ lastWrite = NoWrite
    /\ textures = [i \in TexSlots |-> IF i = 0 THEN SlotBytes ELSE NoSlot]
    /\ palettes = [i \in PalSlots |-> IF i = 0 THEN SlotBytes ELSE NoSlot]
    /\ texRead = NoRead
    /\ polygons \in Scenes
    /\ InitFrame /\ InitRaster0 /\ InitSched0

NextRaster == R_Clear \/ R_DrawPolygon \/ R_Pixel \/ R_Return

SpecRaster == InitRaster /\ [][NextRaster]_vars

\* The polygon setup specification: one drawPolygon call per behaviour, on a
\* convex polygon with its vertices on a small grid and on a scanline of the grid.
GridRows == 0 .. GridY
GridPoints == [x : 0 .. 2, y : GridRows]

\* Twice the signed area of the triangle p, q, r
TurnOf(p, q, r) == (q.x - p.x) * (r.y - p.y) - (q.y - p.y) * (r.x - p.x)

\* p lies on the boundary of the convex hull of S: a line through p and another
\* point of S has all of S on one side
OnHull(S, p) ==
    \E q \in S \ {p} :
        \/ \A r \in S : TurnOf(p, q, r) >= 0
        \/ \A r \in S : TurnOf(p, q, r) <= 0

\* The vertex sets of the convex polygons of 3 to 8 vertices: not all on one
\* line, every vertex on the boundary of the hull (vertices inside an edge, as
\* clipping leaves them, included)
ConvexSets ==
    {S \in SUBSET GridPoints :
        /\ Cardinality(S) >= 3 /\ Cardinality(S) <= MaxVertices
        /\ \E p, q, r \in S : TurnOf(p, q, r) # 0
        /\ \A p \in S : OnHull(S, p)}

\* The vertices of a set as a vertex list, the last in the order of the sort first
RECURSIVE VertexList(_)
VertexList(S) ==
    IF S = {} THEN << >>
    ELSE LET p == CHOOSE p \in S : \A q \in S \ {p} : VertexBefore(q, p)
         IN  <<Vtx(p.x, p.y, 1024, 4096, Red, 0, 0)>> \o VertexList(S \ {p})

InitEdges ==
    /\ disp3DCnt = 0
    /\ InitRegs
    /\ lastWrite = NoWrite
    /\ textures = [i \in TexSlots |-> NoSlot]
    /\ palettes = [i \in PalSlots |-> NoSlot]
    /\ texRead = NoRead
    /\ polygons = << >>
    /\ InitFrame /\ InitSched0
    /\ rs = [pc |-> "idle", line |-> -1, queue |-> << >>, cur |-> 0, x |-> 0]
    /\ lastPixel = NoPixel
    /\ drawLog = << >>
    /\ prevEnd = NoPrev
    /\ \E S \in ConvexSets, line \in GridRows :
         setup = [called |-> FALSE, line |-> line,
                  polygon |-> Polygon(VertexList(S), 1, 0, Flags(FALSE, FALSE)), culled |-> FALSE]

NextEdges == DrawPolygonCall

SpecEdges == InitEdges /\ [][NextEdges]_vars

\* The renderer as the emulator drives it: the threaded setting is read on
\* every call and does not change during a run; the geometry of the frame and
\* the registers are fixed (they change at V-blank only).
SchedScenes == {<<PolyTriangle, PolyTrans>>, <<PolyOpaque5>>}

Init ==
    /\ disp3DCnt = 0
    /\ clearColor = ClearColorAfter(2147483647, 2031616 + 31)
    /\ clearDepth = ClearDepthAfter(65535, 32767)
    /\ toonTable = [i \in 0 .. 31 |-> 0]
    /\ lastWrite = NoWrite
    /\ textures = [i \in TexSlots |-> IF i = 0 THEN SlotBytes ELSE NoSlot]
    /\ palettes = [i \in PalSlots |-> IF i = 0 THEN SlotBytes ELSE NoSlot]
    /\ texRead = NoRead
    /\ polygons \in SchedScenes
    /\ InitFrame /\ InitRaster0
    /\ threaded \in BOOLEAN
    /\ InitThreads

Next ==
    \/ \E line \in HostLines : drawScanlineSingle(line)
    \/ \E line \in HostLines : drawScanlineFrame(line)
    \/ \E line \in HostLines : drawScanlineTileEnd(line)
    \/ \E line \in HostLines : drawScanlineOther(line)
    \/ SpawnThread
    \/ \E i \in 0 .. NumTiles - 1, k \in 1 .. 2 : WorkerClear(i, k)
    \/ \E i \in 0 .. NumTiles - 1, k \in 1 .. 2 : WorkerDraw(i, k)
    \/ Destructor

Spec == Init /\ [][Next]_vars

\* The renderer with a frontend that changes the threaded setting during a
\* run, any number of times: the host's own drawScanline1 is taken in its two
\* steps, as the threads', so that the threads' steps interleave with it.
InitToggle ==
    /\ Init
    /\ polygons = <<PolyOpaque5>>

\* The last scanline the host calls drawScanline for: the first of the second tile
FrameLastLine == TileLines

\* The scanline of the host's next call: the host draws the head of one frame,
\* scanline after scanline
FrameLines == {l \in {host.line + 1} : l <= FrameLastLine}

NextToggle ==
    \/ SetThreaded3D
    \/ \E line \in FrameLines : HostClear(line)
    \/ HostDraw
    \/ \E line \in FrameLines : drawScanlineFrame(line)
    \/ \E line \in FrameLines : drawScanlineTileEnd(line)
    \/ \E line \in FrameLines : drawScanlineOther(line)
    \/ SpawnThread
    \/ \E i \in 0 .. NumTiles - 1, k \in 1 .. 2 : WorkerClear(i, k)
    \/ \E i \in 0 .. NumTiles - 1, k \in 1 .. 2 : WorkerDraw(i, k)
    \/ Destructor

SpecToggle == InitToggle /\ [][NextToggle]_vars

\* ------------------------------------------------------------------- C1
\* The scanlines of tile t, in increasing order
TileScanlines(t) == [k \in 1 .. TileLines |-> t * TileLines + k - 1]

\* drawScanline(line) has returned to the host
Returned(line) == host.pc = "idle" /\ host.line = line

\* C1: in threaded mode, in a frame that drawScanline(0) started, when
\* drawScanline(48 * t + 47) has returned, the thread of tile t was joined and
\* deleted, it had left drawScanline48, and it had drawn the scanlines
\* 48 * t .. 48 * t + 47 once each, in increasing order. (The host reaches a
\* scanline other than 0 only after a drawScanline(0) of the same frame.)
C1_TileJoinedAtTileEnd ==
    \A t \in 0 .. NumTiles - 1 :
        (threaded /\ Returned(t * TileLines + TileLines - 1)) =>
            /\ threads[t] = 0
            /\ live[t] = << >>
            /\ finished[t] = [pc |-> "done", log |-> TileScanlines(t)]

\* The last tile's join has returned, and its thread had drawn the tile
C1_Witness ==
    /\ threaded
    /\ Returned(NumLines - 1)
    /\ finished[NumTiles - 1].log = TileScanlines(NumTiles - 1)
    /\ threads[NumTiles - 1] = 0

\* ------------------------------------------------------------------- C2
\* The buffers after construction
FreshBufs ==
    Bufs([i \in 0 .. NumLines * Width - 1 |-> 0],
         [t \in 0 .. NumTiles - 1 |-> [x \in 0 .. Width - 1 |-> 0]],
         [t \in 0 .. NumTiles - 1 |-> [x \in 0 .. Width - 1 |-> 0]],
         [t \in 0 .. NumTiles - 1 |-> [x \in 0 .. Width - 1 |-> 0]])

\* The buffers after drawScanline1(line), ..., drawScanline1(191) in this order
RECURSIVE SingleThreadedFrom(_, _)
SingleThreadedFrom(b, line) ==
    IF line >= NumLines THEN b
    ELSE LET drawn == drawScanline1(b, line)
         IN  IF drawn = b
             THEN SingleThreadedFrom(b, line + 1)
             ELSE SingleThreadedFrom(drawn, line + 1)

\* The framebuffer of a frame drawn by the host, scanline after scanline
SingleThreadedFrame == SingleThreadedFrom(FreshBufs, 0).fb

\* C2: once the calls drawScanline(0), ..., drawScanline(191) of a frame have
\* returned, the framebuffer is the one the host draws scanline after scanline
\* in single-threaded mode: in threaded mode, whatever the interleaving of the
\* four threads was (and in single-threaded mode, by the calls themselves).
C2_ThreadedFrameIsSingleThreadedFrame ==
    Returned(NumLines - 1) => framebuffer = SingleThreadedFrame

\* A threaded frame is complete: the four joins are done, and polygons were drawn
C2_Witness ==
    /\ threaded
    /\ Returned(NumLines - 1)
    /\ \A i \in 0 .. NumTiles - 1 : threads[i] = 0 /\ finished[i].pc = "done"
    /\ \E p \in DOMAIN framebuffer : framebuffer[p] # clearColor

\* ------------------------------------------------------------------- C3
\* The framebuffer words of the rows of tile i, and the cells of its row buffers
TileFbCells(i) ==
    {l * Width + x : l \in i * TileLines .. i * TileLines + TileLines - 1, x \in 0 .. Width - 1}
TileBufCells(i) == {<<i, x>> : x \in 0 .. Width - 1}

\* The threads that were created and not joined
LiveThreads == {ik \in (0 .. NumTiles - 1) \X (1 .. 2) : ik[2] \in DOMAIN live[ik[1]]}

\* C3: in threaded mode the stores of the thread of slot i are addressed to
\* framebuffer rows 48 * i .. 48 * i + 47 and to the row buffers of index i
\* only, and no two threads that are live at the same time have stored to the
\* same framebuffer word or row buffer cell, whatever the calls of the host
\* were, a drawScanline(0) while threads of the frame before are running included.
C3_ThreadsWriteOwnTile ==
    /\ \A ik \in LiveThreads :
         LET w == live[ik[1]][ik[2]]
         IN  w.fbCells \subseteq TileFbCells(ik[1]) /\ w.bufCells \subseteq TileBufCells(ik[1])
    /\ \A ik \in LiveThreads, jl \in LiveThreads :
         ik # jl =>
            LET w == live[ik[1]][ik[2]]
                v == live[jl[1]][jl[2]]
            IN  w.fbCells \cap v.fbCells = {} /\ w.bufCells \cap v.bufCells = {}

\* drawScanline(0) was called again while the thread of the last tile, of the
\* frame before, is still drawing, and the new thread of tile 0 has drawn
C3_Witness ==
    /\ host.pc = "spawn"
    /\ host.i >= 1
    /\ live[0] # << >> /\ live[0][1].log # << >>
    /\ live[NumTiles - 1] # << >>
    /\ live[NumTiles - 1][1].pc # "done"
    /\ live[NumTiles - 1][1].fbCells # {}

\* ------------------------------------------------------------------ C10
\* C10: after a write_disp_3d_cnt(mask, value) call, bit 12 (resp. 13) of the
\* register is clear if the value has it set and unchanged otherwise, bits 0..11
\* and 14 hold the value's bit where the mask bit is set and are unchanged
\* elsewhere, and bit 15 is unchanged.
C10_Disp3DCntWrite ==
    lastWrite.reg = "disp3DCnt" =>
        \A b \in 0..15 :
            BitOf(disp3DCnt, b) =
                IF b \in {12, 13}
                THEN (IF BitOf(lastWrite.value, b) = 1 THEN 0 ELSE BitOf(lastWrite.old, b))
                ELSE IF b = 15 THEN BitOf(lastWrite.old, b)
                ELSE IF BitOf(lastWrite.mask, b) = 1 THEN BitOf(lastWrite.value, b)
                ELSE BitOf(lastWrite.old, b)

\* A write with bit 12 set in the mask and in the value found the error bit set
\* and acknowledged it, and wrote bit 14 through the mask.
C10_Witness ==
    /\ lastWrite.reg = "disp3DCnt"
    /\ BitOf(lastWrite.mask, 12) = 1 /\ BitOf(lastWrite.value, 12) = 1
    /\ BitOf(lastWrite.old, 12) = 1 /\ BitOf(disp3DCnt, 12) = 0
    /\ BitOf(lastWrite.old, 14) = 0 /\ BitOf(disp3DCnt, 14) = 1
    /\ BitOf(lastWrite.old, 13) = 1 /\ BitOf(disp3DCnt, 13) = 1

\* ------------------------------------------------------------------- C9
\* The slots a sample of the polygon touches: the slot of its texture data, the
\* slot of its palette for the palette formats, and for format 5 the slot that
\* holds the palette bases (slot 1).
TouchedAbsent(polygon) ==
    \/ textures[polygon.textureAddr \div TexSlotSize] = NoSlot
    \/ polygon.textureFmt \in 1 .. 6 /\ palettes[polygon.paletteAddr \div PalSlotSize] = NoSlot
    \/ polygon.textureFmt = 5 /\ textures[1] = NoSlot

\* C9: for every texture format 1..7 and every combination of absent slots the
\* sample touches, readTexture dereferences no absent slot and returns texel 0.
C9_AbsentSlotYieldsZero ==
    (texRead.called /\ texRead.polygon.textureFmt \in 1 .. 7) =>
        /\ ~texRead.fault
        /\ TouchedAbsent(texRead.polygon) => texRead.texel = 0

\* ------------------------------------------------------------- C4 .. C8
\* The state in which the polygons of scanline rs.line start to be drawn
AtPolygonsStart == rs.pc = "polys" /\ drawLog = << >>

ClearTile ==
    [depth |-> [x \in 0 .. Width - 1 |-> clearDepth],
     attrib |-> [x \in 0 .. Width - 1 |-> 0],
     stencil |-> [x \in 0 .. Width - 1 |-> 0]]

LastPolygon == polygons[lastPixel.idx]
LastTile == TileOf(lastPixel.line)
LastColor == PixelColor(LastPolygon, SpanOf(lastPixel.line, LastPolygon), lastPixel.x)
LastWrote == lastPixel.outcome \in {"blend", "write"}
LastPassed ==
    \/ LastPolygon.depthTestEqual /\ lastPixel.before.depth[LastTile][lastPixel.x] - 512 >= lastPixel.depth
    \/ lastPixel.before.depth[LastTile][lastPixel.x] > lastPixel.depth

\* C5: a pixel write with alpha 0x3F sets the depth of its column to the pixel's
\* depth; a translucent pixel write (alpha 1..0x3E) of a polygon without
\* trans_new_depth leaves the depth of its column as it was, whatever the pixel
\* held before.
C5_DepthOnWrite ==
    (lastPixel.fresh /\ LastWrote) =>
        /\ ChanA(LastColor) = 63 => depthBuffer[LastTile][lastPixel.x] = lastPixel.depth
        /\ (ChanA(LastColor) \in 1 .. 62 /\ ~LastPolygon.transNewDepth) =>
                depthBuffer[LastTile][lastPixel.x] = lastPixel.before.depth[LastTile][lastPixel.x]

\* C6: an iteration of rasterize's loop for a shadow polygon with id 0 leaves
\* the framebuffer, the depth buffer and the attribute buffer as they were, sets
\* the stencil bit of its column if the column passes the depth test, and
\* leaves every stencil bit as it was if it does not.
C6_ShadowZeroOnlyStencil ==
    (lastPixel.fresh /\ LastPolygon.mode = 3 /\ LastPolygon.id = 0) =>
        /\ framebuffer = lastPixel.before.fb
        /\ depthBuffer = lastPixel.before.depth
        /\ attribBuffer = lastPixel.before.attrib
        /\ stencilBuffer =
              IF LastPassed
              THEN [lastPixel.before.stencil EXCEPT ![LastTile][lastPixel.x] = 1]
              ELSE lastPixel.before.stencil

\* A shadow polygon with id 0 failed the depth test at a column, right of a
\* column of the same scanline where it passed and set the stencil bit.
C6_Witness ==
    /\ lastPixel.fresh /\ LastPolygon.mode = 3 /\ LastPolygon.id = 0
    /\ ~LastPassed
    /\ lastPixel.x > 0
    /\ lastPixel.before.stencil[LastTile][lastPixel.x - 1] = 1
    /\ lastPixel.before.attrib[LastTile][lastPixel.x - 1] = 0

\* What C7 says of a pixel a shadow polygon with another id skips
LastSkipLeavesRest ==
    (LastPassed /\ (lastPixel.before.stencil[LastTile][lastPixel.x] # 0
                    \/ lastPixel.before.attrib[LastTile][lastPixel.x] = LastPolygon.id)) =>
        /\ stencilBuffer = [lastPixel.before.stencil EXCEPT ![LastTile][lastPixel.x] = 0]
        /\ framebuffer = lastPixel.before.fb
        /\ depthBuffer = lastPixel.before.depth
        /\ attribBuffer = lastPixel.before.attrib

\* C7 as claimed: a shadow polygon with an id other than 0 writes the pixel if
\* and only if it passed the depth test, the stencil bit was 0 and the attribute
\* differed from the id; a pixel skipped for its stencil bit or attribute has
\* its stencil bit cleared and nothing else changed.
C7_ShadowWriteIff ==
    (lastPixel.fresh /\ LastPolygon.mode = 3 /\ LastPolygon.id # 0) =>
        /\ LastWrote <=>
              /\ LastPassed
              /\ lastPixel.before.stencil[LastTile][lastPixel.x] = 0
              /\ lastPixel.before.attrib[LastTile][lastPixel.x] # LastPolygon.id
        /\ LastSkipLeavesRest

\* C7 as amended: the pixel is written if and only if, on top of the three
\* conditions, its colour has an alpha other than 0.
C7_ShadowWriteIffAlpha ==
    (lastPixel.fresh /\ LastPolygon.mode = 3 /\ LastPolygon.id # 0) =>
        /\ LastWrote <=>
              /\ LastPassed
              /\ lastPixel.before.stencil[LastTile][lastPixel.x] = 0
              /\ lastPixel.before.attrib[LastTile][lastPixel.x] # LastPolygon.id
              /\ ChanA(LastColor) # 0
        /\ ~LastWrote => framebuffer = lastPixel.before.fb
        /\ LastSkipLeavesRest

\* A shadow polygon with id 5 wrote a pixel whose column had passed the depth
\* test with the stencil bit clear, after it had skipped the column to the left,
\* whose stencil bit a shadow polygon with id 0 had set.
C7_Witness ==
    /\ lastPixel.fresh /\ LastPolygon.mode = 3 /\ LastPolygon.id = 5
    /\ LastWrote /\ LastPassed
    /\ lastPixel.before.stencil[LastTile][lastPixel.x] = 0
    /\ lastPixel.before.attrib[LastTile][lastPixel.x] = 1
    /\ framebuffer[lastPixel.line * Width + lastPixel.x] # lastPixel.before.fb[lastPixel.line * Width + lastPixel.x]
    /\ lastPixel.x > 0
    /\ framebuffer[lastPixel.line * Width + lastPixel.x - 1] = BIT(26) + Red

\* C8: a polygon is opaque when all its vertices have alpha 0x3F and its
\* texture format is neither 1 nor 6
AllOpaque(polygon) ==
    /\ \A i \in 1 .. polygon.size : ChanAFull(polygon.vertices[i].color) >= 63
    /\ polygon.textureFmt \notin {1, 6}

\* C8: within a scanline every opaque polygon is drawn before every other
\* polygon, each of the two groups is drawn in submission order, and no polygon
\* with a vertex alpha below 0x3F is drawn in the opaque pass.
C8_OpaqueFirst ==
    /\ \A i, j \in 1 .. Len(drawLog) :
          i < j =>
            /\ ~(~AllOpaque(polygons[drawLog[i].idx]) /\ AllOpaque(polygons[drawLog[j].idx]))
            /\ AllOpaque(polygons[drawLog[i].idx]) = AllOpaque(polygons[drawLog[j].idx])
                  => drawLog[i].idx < drawLog[j].idx
    /\ \A i \in 1 .. Len(drawLog) :
          drawLog[i].pass = "solid" =>
              \A k \in 1 .. polygons[drawLog[i].idx].size :
                  ChanAFull(polygons[drawLog[i].idx].vertices[k].color) >= 63

\* ------------------------------------------------------------------ C11
\* The depth the last iteration of rasterize's loop found in its column, and
\* the one it left
LastOldDepth == lastPixel.before.depth[LastTile][lastPixel.x]
LastNewDepth == depthBuffer[LastTile][lastPixel.x]

\* The iteration took a branch that stores to the depth buffer
LastStoredDepth ==
    \/ lastPixel.outcome = "write"
    \/ lastPixel.outcome = "blend" /\ LastPolygon.transNewDepth

SetupRasterizes == setup.called /\ setup.polygon.size >= 3 /\ ~setup.culled

\* The y of the vertex drawPolygon picked, by its index into the sorted vertices
SetupY(v) == setup.vs[v + 1].y

\* C12: for a convex polygon of 3 to 8 vertices and a scanline between its
\* first and its last sorted vertex, the four vertices drawPolygon passes to
\* rasterize are vertices of the polygon with v1.y <= line < v2.y and
\* v3.y <= line < v4.y, so that v2.y - v1.y and v4.y - v3.y are positive.
C12_EdgesStraddleLine ==
    SetupRasterizes =>
        /\ \A v \in {setup.v1, setup.v2, setup.v3, setup.v4} : v \in 0 .. setup.polygon.size - 1
        /\ SetupY(setup.v1) <= setup.line /\ setup.line < SetupY(setup.v2)
        /\ SetupY(setup.v3) <= setup.line /\ setup.line < SetupY(setup.v4)
        /\ SetupY(setup.v2) - SetupY(setup.v1) > 0
        /\ SetupY(setup.v4) - SetupY(setup.v3) > 0

\* rasterize was reached for a polygon of 8 vertices with a horizontal top edge
\* and a horizontal bottom edge, three vertices on each
C12_Witness ==
    /\ SetupRasterizes
    /\ setup.polygon.size = 8
    /\ SetupY(0) = SetupY(2)
    /\ SetupY(5) = SetupY(7)
    /\ setup.line > SetupY(0)

\* ------------------------------------------------------------------ C13
\* C13: an iteration of rasterize's loop passes the depth test exactly when
\* depthBuffer[x] - 0x200 >= depth if the polygon has the equal depth test, and
\* exactly when depthBuffer[x] > depth if it has not.
C13_DepthTestForms ==
    lastPixel.fresh =>
        (lastPixel.outcome # "fail") =
            IF LastPolygon.depthTestEqual
            THEN LastOldDepth - 512 >= lastPixel.depth
            ELSE LastOldDepth > lastPixel.depth

\* ------------------------------------------------------------------ C14
\* The threads of the tile of the host's scanline that were created and have
\* not left drawScanline48
RunningInHostTile ==
    {k \in DOMAIN live[TileOf(host.line)] : live[TileOf(host.line)][k].pc # "done"}

\* C14: whatever the calls of drawScanline are and whenever the threaded
\* setting changes between them, the host is never in drawScanline1(line)
\* while a thread of the tile of that scanline is still running.
C14_HostNeverDrawsOverThread == host.pc = "draw" => RunningInHostTile = {}

=============================================================================
